---- MODULE Spec2Model ----
(***************************************************************************)
(* Model of the tree differ of genhtml-report-parser (src/src/analyzer.ts), *)
(* of its report builder (parseRootIndexFile) and of the locator of the    *)
(* root document (findRootIndexFile).                                      *)
(*                                                                         *)
(* diff(before, after) is a pure function of two report trees.  The state  *)
(* holds the two input reports, the position of the caller and the value   *)
(* returned by diff.  Init draws the two reports from bounded sets of      *)
(* well-formed report trees, the action Diff applies the function.         *)
(*                                                                         *)
(* Numbers.  Total, Hit and the optional categories are line counts        *)
(* (integers).  Coverage is a percentage printed by genhtml with one       *)
(* decimal ("85.7 %"); it is represented by its number of tenths (857).    *)
(* A Fraction is a pair <<n, d>> in lowest terms with d > 0.               *)
(***************************************************************************)
EXTENDS Integers, Sequences, FiniteSets, TLC

VARIABLES before, after, pc, result

\* The state of the builder: the file system, the path the caller names the
\* report by, the position of the caller, the value findRootIndexFile
\* returned, the value parseRootIndexFile returned, and the calls the
\* builder made, in their order.
VARIABLES disk, arg, ppc, rootIndexFile, parsedReport, calls

vars ==
  <<before, after, pc, result,
    disk, arg, ppc, rootIndexFile, parsedReport, calls>>

(***************************************************************************)
(* Bounds of the input space.                                              *)
(***************************************************************************)
\* Largest number of child nodes (files and directories, at any depth) the
\* two reports of the structural input family hold together.
MaxNodes == 4

\* Largest number of rows of a generated listing.
MaxRows == 2

\* Deepest nesting of parseChildren calls a build is followed to; a build
\* that nests deeper is still running when it is left.
MaxDepth == 4

\* Coverage percentages, in tenths of a percent: 85.0, 85.5, 85.7.
CoverageValues == {850, 855, 857}
TotalValues == {4, 10}
HitValues == {5, 7}
UNCValues == {0, 1}

\* Relative paths (always relative to the root report directory).
RootPaths == {"a.c", "dir"}
DirectoryPaths == {"dir"}
NestedPaths == {"dir/b.c", "dir/c.c"}

\* The value of a JavaScript expression that evaluates to undefined.
Undefined == [undefined |-> TRUE]

(***************************************************************************)
(* Data model: GenhtmlReportStats, GenhtmlReportFile,                      *)
(* GenhtmlReportDirectory, GenhtmlReport.                                  *)
(***************************************************************************)
GenhtmlReportStats ==
  [Coverage : CoverageValues, Total : TotalValues, Hit : HitValues,
   UNC : UNCValues]

\* The statistics used by the structural family: only Hit varies.
ShapeStats ==
  {s \in GenhtmlReportStats :
     s.Coverage = 857 /\ s.Total = 10 /\ s.UNC = 0}

FilePath(rel) == [relative |-> rel]

GenhtmlReportFile(paths, statsSet) ==
  [type : {"File"}, path : {FilePath(p) : p \in paths}, stats : statsSet]

\* Sequences over S of length exactly n.
RECURSIVE SeqOfLen(_, _)
SeqOfLen(S, n) ==
  IF n = 0 THEN {<<>>}
  ELSE {Append(s, x) : s \in SeqOfLen(S, n - 1), x \in S}

\* Directory nodes with exactly n files below them.
GenhtmlReportDirectory(n) ==
  [type : {"Directory"}, path : {FilePath(p) : p \in DirectoryPaths},
   stats : ShapeStats,
   children : SeqOfLen(GenhtmlReportFile(NestedPaths, ShapeStats), n)]

\* Nodes of weight exactly w (a file weighs 1, a directory 1 + its files).
NodesOfWeight(w) ==
  (IF w = 1 THEN GenhtmlReportFile(RootPaths, ShapeStats) ELSE {})
    \cup GenhtmlReportDirectory(w - 1)

\* Children collections of total weight exactly w.
RECURSIVE ChildrenOfWeight(_)
ChildrenOfWeight(w) ==
  IF w = 0 THEN {<<>>}
  ELSE UNION {{<<n>> \o rest : n \in NodesOfWeight(k),
                               rest \in ChildrenOfWeight(w - k)} : k \in 1..w}

ShapeStatsRoot == CHOOSE s \in ShapeStats : s.Hit = 5

\* Structural family, by weight: the root statistics are fixed, the
\* children collections vary (order, duplicates, kinds, nesting).
ShapeReports ==
  [w \in 0..MaxNodes |->
     {[root |-> [stats |-> ShapeStatsRoot, children |-> c]] :
        c \in ChildrenOfWeight(w)}]

\* Statistics family: a report of a single file, flat or inside one
\* directory, whose rows repeat the summary of the root.
FlatReport(s) ==
  [root |-> [stats |-> s,
             children |-> <<[type |-> "File", path |-> FilePath("a.c"),
                             stats |-> s]>>]]

NestedReport(s) ==
  [root |-> [stats |-> s,
             children |-> <<[type |-> "Directory", path |-> FilePath("dir"),
                             stats |-> s,
                             children |-> <<[type |-> "File",
                                             path |-> FilePath("dir/b.c"),
                                             stats |-> s]>>]>>]]

StatsReports ==
  {FlatReport(s) : s \in GenhtmlReportStats}
    \cup {NestedReport(s) : s \in GenhtmlReportStats}

\* Scenario family: the trees over a.c and dir{dir/b.c, dir/c.c} in that
\* order, every node present or absent, paths unique.
OptionalFile(path) ==
  {<<>>} \cup {<<f>> : f \in GenhtmlReportFile({path}, ShapeStats)}

ScenarioDirectories ==
  {<<>>} \cup
  {<<[type |-> "Directory", path |-> FilePath("dir"), stats |-> s,
      children |-> b \o c]>> :
     s \in ShapeStats, b \in OptionalFile("dir/b.c"),
     c \in OptionalFile("dir/c.c")}

ScenarioReports ==
  {[root |-> [stats |-> ShapeStatsRoot, children |-> f \o d]] :
     f \in OptionalFile("a.c"), d \in ScenarioDirectories}

(***************************************************************************)
(* Fraction (fraction.js), as used by statsDiff.                           *)
(***************************************************************************)
Abs(x) == IF x < 0 THEN -x ELSE x

RECURSIVE Gcd(_, _)
Gcd(a, b) == IF b = 0 THEN a ELSE Gcd(b, a % b)

\* A fraction in lowest terms, positive denominator.
Reduce(n, d) ==
  LET g == Gcd(Abs(n), Abs(d))
  IN IF g = 0 THEN <<0, 1>> ELSE <<n \div g, d \div g>>

\* new Fraction(x) for a number x given in tenths.
Fraction(tenths) == Reduce(tenths, 10)

\* f.sub(g)
FractionSub(f, g) == Reduce(f[1] * g[2] - g[1] * f[2], f[2] * g[2])

\* Number(f): back to a number in tenths.
FractionToNumber(f) == (f[1] * 10) \div f[2]

(***************************************************************************)
(* statsDiff, buildMap, diffChildren, diff.                                *)
(***************************************************************************)
\* Variant: the percentages are truncated to whole percents before the
\* subtraction.
CoverageDeltaTruncated(a, b) ==
  ((b.Coverage \div 10) - (a.Coverage \div 10)) * 10

CoverageDelta(a, b) ==
  FractionToNumber(FractionSub(Fraction(b.Coverage), Fraction(a.Coverage)))

\* Variant: the hit delta is left out of the emptiness test.
statsDiffIgnoringHit(a, b) ==
  LET coverageDelta == CoverageDelta(a, b)
      totalDelta == b.Total - a.Total
      hitDelta == b.Hit - a.Hit
  IN IF coverageDelta # 0 \/ totalDelta # 0
     THEN [Coverage |-> b.Coverage, Total |-> b.Total, Hit |-> b.Hit,
           CoverageDelta |-> coverageDelta, TotalDelta |-> totalDelta,
           HitDelta |-> hitDelta]
     ELSE Undefined

\* Variant: every category takes part in the emptiness test.
statsDiffAnyCategory(a, b) ==
  LET coverageDelta == CoverageDelta(a, b)
      totalDelta == b.Total - a.Total
      hitDelta == b.Hit - a.Hit
  IN IF a # b
     THEN [Coverage |-> b.Coverage, Total |-> b.Total, Hit |-> b.Hit,
           CoverageDelta |-> coverageDelta, TotalDelta |-> totalDelta,
           HitDelta |-> hitDelta]
     ELSE Undefined

\* Variant: the record reports the first node and the deltas a minus b.
statsDiffSwapped(a, b) ==
  LET coverageDelta == CoverageDelta(b, a)
      totalDelta == a.Total - b.Total
      hitDelta == a.Hit - b.Hit
  IN IF coverageDelta # 0 \/ totalDelta # 0 \/ hitDelta # 0
     THEN [Coverage |-> a.Coverage, Total |-> a.Total, Hit |-> a.Hit,
           CoverageDelta |-> coverageDelta, TotalDelta |-> totalDelta,
           HitDelta |-> hitDelta]
     ELSE Undefined

\* Variant: the deltas are reported by their size, without sign.
statsDiffMagnitude(a, b) ==
  LET coverageDelta == CoverageDelta(a, b)
      totalDelta == b.Total - a.Total
      hitDelta == b.Hit - a.Hit
  IN IF coverageDelta # 0 \/ totalDelta # 0 \/ hitDelta # 0
     THEN [Coverage |-> b.Coverage, Total |-> b.Total, Hit |-> b.Hit,
           CoverageDelta |-> IF coverageDelta < 0 THEN -coverageDelta
                             ELSE coverageDelta,
           TotalDelta |-> IF totalDelta < 0 THEN -totalDelta ELSE totalDelta,
           HitDelta |-> IF hitDelta < 0 THEN -hitDelta ELSE hitDelta]
     ELSE Undefined

statsDiff(a, b) ==
  LET coverageDelta == CoverageDelta(a, b)
      totalDelta == b.Total - a.Total
      hitDelta == b.Hit - a.Hit
  IN IF coverageDelta # 0 \/ totalDelta # 0 \/ hitDelta # 0
     THEN [Coverage |-> b.Coverage, Total |-> b.Total, Hit |-> b.Hit,
           CoverageDelta |-> coverageDelta, TotalDelta |-> totalDelta,
           HitDelta |-> hitDelta]
     ELSE Undefined

\* A Map: the keys in insertion order and the value of each key.
EmptyMap == [keys |-> <<>>, get |-> [k \in {} |-> Undefined]]

MapHas(map, key) == key \in DOMAIN map.get

\* map.set(key, value): a known key keeps its position, its value is replaced.
MapSet(map, key, value) ==
  [keys |-> IF MapHas(map, key) THEN map.keys ELSE Append(map.keys, key),
   get |-> [k \in (DOMAIN map.get) \cup {key} |->
              IF k = key THEN value ELSE map.get[k]]]

RECURSIVE buildMapFirstWins(_)
\* Variant: a key that is already in the map keeps its value.
buildMapFirstWins(children) ==
  IF children = <<>> THEN EmptyMap
  ELSE LET n == Len(children)
           child == children[n]
           map == buildMapFirstWins(SubSeq(children, 1, n - 1))
       IN IF MapHas(map, child.path.relative) THEN map
          ELSE MapSet(map, child.path.relative, child)

RECURSIVE buildMap(_)
buildMap(children) ==
  IF children = <<>> THEN EmptyMap
  ELSE LET n == Len(children)
           child == children[n]
       IN MapSet(buildMap(SubSeq(children, 1, n - 1)),
                 child.path.relative, child)

\* Variant: the keys of bMap are iterated first.
allKeysAfterFirst(aMap, bMap) ==
  bMap.keys \o SelectSeq(aMap.keys, LAMBDA k : ~MapHas(bMap, k))

\* new Set([...aMap.keys(), ...bMap.keys()]) in iteration order.
allKeys(aMap, bMap) ==
  aMap.keys \o SelectSeq(bMap.keys, LAMBDA k : ~MapHas(aMap, k))

\* Variant: the removed node lists the paths of its former children.
removedNodeEnumerating(aNode, key) ==
  IF aNode.type = "Directory"
  THEN [type |-> "removed", nodeType |-> aNode.type, path |-> key,
        children |-> [i \in DOMAIN aNode.children |->
                        [type |-> "removed", nodeType |-> "File",
                         path |-> aNode.children[i].path.relative]]]
  ELSE [type |-> "removed", nodeType |-> aNode.type, path |-> key]

\* The node pushed for a key present only in aMap.
removedNode(aNode, key) ==
  [type |-> "removed", nodeType |-> aNode.type, path |-> key]

\* Variant: the deltas of an added node are left at zero.
addedStatsZeroDelta(bNode) ==
  [Coverage |-> bNode.stats.Coverage, Total |-> bNode.stats.Total,
   Hit |-> bNode.stats.Hit, CoverageDelta |-> 0, TotalDelta |-> 0,
   HitDelta |-> 0]

\* The stats of an added node: deltas from an all-zero baseline.
addedStats(bNode) ==
  [Coverage |-> bNode.stats.Coverage, Total |-> bNode.stats.Total,
   Hit |-> bNode.stats.Hit, CoverageDelta |-> bNode.stats.Coverage,
   TotalDelta |-> bNode.stats.Total, HitDelta |-> bNode.stats.Hit]

\* Variant: the descendants of an added directory are not enumerated.
addedNodeWithoutChildren(bNode, key, children) ==
  [type |-> "added", nodeType |-> bNode.type, path |-> key,
   stats |-> [Coverage |-> bNode.stats.Coverage, Total |-> bNode.stats.Total,
              Hit |-> bNode.stats.Hit,
              CoverageDelta |-> bNode.stats.Coverage,
              TotalDelta |-> bNode.stats.Total,
              HitDelta |-> bNode.stats.Hit]]

\* The node pushed for a key present only in bMap; children is the diff of
\* an empty collection against the directory's children.  For a File the
\* local is undefined, which the guard "children && children.length > 0"
\* treats as an empty list: it is passed as <<>>.
addedNode(bNode, key, children) ==
  LET base == [type |-> "added", nodeType |-> bNode.type, path |-> key,
               stats |-> addedStats(bNode)]
  IN IF Len(children) > 0
     THEN [type |-> base.type, nodeType |-> base.nodeType,
           path |-> base.path, stats |-> base.stats, children |-> children]
     ELSE base

\* Variant: "if (stats || children)": a list is always truthy.
changedDirectoryAlways(key, stats, children) ==
  <<[type |-> "changed", nodeType |-> "Directory", path |-> key,
     stats |-> stats, children |-> children]>>

\* Variant: the child diffs do not take part in the test.
changedDirectoryStatsOnly(key, stats, children) ==
  IF stats # Undefined
  THEN <<[type |-> "changed", nodeType |-> "Directory", path |-> key,
          stats |-> stats, children |-> children]>>
  ELSE <<>>

\* Directory on both sides.
changedDirectory(key, stats, children) ==
  IF stats # Undefined \/ Len(children) > 0
  THEN <<[type |-> "changed", nodeType |-> "Directory", path |-> key,
          stats |-> stats, children |-> children]>>
  ELSE <<>>

\* File on both sides.
changedFile(key, stats) ==
  IF stats # Undefined
  THEN <<[type |-> "changed", nodeType |-> "File", path |-> key,
          stats |-> stats]>>
  ELSE <<>>

\* "node.children" is a list and not undefined.
HasChildren(node) == "children" \in DOMAIN node

RECURSIVE diffChildren(_, _)

\* One iteration of the loop over allKeys: the nodes pushed for key.
diffKey(aMap, bMap, key) ==
  IF MapHas(aMap, key) /\ ~MapHas(bMap, key)
  THEN <<removedNode(aMap.get[key], key)>>
  ELSE IF ~MapHas(aMap, key) /\ MapHas(bMap, key)
  THEN LET bNode == bMap.get[key]
       IN <<addedNode(bNode, key,
                      IF bNode.type = "Directory" /\ HasChildren(bNode)
                      THEN diffChildren(<<>>, bNode.children)
                      ELSE <<>>)>>
  ELSE IF MapHas(aMap, key) /\ MapHas(bMap, key)
  THEN LET aNode == aMap.get[key]
           bNode == bMap.get[key]
       IN IF aNode.type = "Directory" /\ bNode.type = "Directory"
          THEN changedDirectory(key, statsDiff(aNode.stats, bNode.stats),
                                diffChildren(aNode.children, bNode.children))
          ELSE IF aNode.type = "File" /\ bNode.type = "File"
          THEN changedFile(key, statsDiff(aNode.stats, bNode.stats))
          ELSE <<>>
  ELSE <<>>

RECURSIVE diffKeys(_, _, _)
diffKeys(aMap, bMap, keys) ==
  IF keys = <<>> THEN <<>>
  ELSE diffKey(aMap, bMap, Head(keys)) \o diffKeys(aMap, bMap, Tail(keys))

diffChildren(aChildren, bChildren) ==
  LET aMap == buildMap(aChildren)
      bMap == buildMap(bChildren)
  IN diffKeys(aMap, bMap, allKeys(aMap, bMap))

diff(b, a) ==
  [stats |-> statsDiff(b.root.stats, a.root.stats),
   children |-> diffChildren(b.root.children, a.root.children)]

\* The value that stands for a raised TypeError.
TypeError == [error |-> "TypeError"]

RECURSIVE diffChildrenThrows(_, _)

\* Variant: the kinds of the two nodes are not tested before their
\* children collections are compared.
diffKeyThrowsUntyped(aMap, bMap, key) ==
  /\ MapHas(aMap, key) /\ MapHas(bMap, key)
  /\ diffChildrenThrows(aMap.get[key], bMap.get[key])

\* One iteration of the loop over allKeys raises: only the comparison of
\* two directories reads children collections that may be undefined (the
\* added branch tests bNode.children first, and diffing [] against a list
\* of files raises nothing).
diffKeyThrows(aMap, bMap, key) ==
  /\ MapHas(aMap, key) /\ MapHas(bMap, key)
  /\ aMap.get[key].type = "Directory" /\ bMap.get[key].type = "Directory"
  /\ diffChildrenThrows(aMap.get[key], bMap.get[key])

\* diffChildren(a.children, b.children) raises: buildMap iterates over
\* undefined ("for (const child of children)"), or an iteration raises.
diffChildrenThrows(a, b) ==
  \/ ~HasChildren(a)
  \/ ~HasChildren(b)
  \/ LET aMap == buildMap(a.children)
         bMap == buildMap(b.children)
         keys == allKeys(aMap, bMap)
     IN \E i \in DOMAIN keys : diffKeyThrows(aMap, bMap, keys[i])

\* diff(b, a) raises instead of returning a DiffRoot.
diffThrows(b, a) == diffChildrenThrows(b.root, a.root)

\* The trees src/src/parser.ts builds: the rows of the root document as a
\* flat list, every child tagged with the kind of the table ("Directory",
\* "File" or undefined) and without a children list.
ListingChild ==
  [type : {"Directory", "File", "undefined"},
   path : {FilePath(p) : p \in RootPaths}, stats : {ShapeStatsRoot}]

ListingReports ==
  {[root |-> [stats |-> ShapeStatsRoot, children |-> c]] :
     c \in UNION {SeqOfLen(ListingChild, n) : n \in 0..MaxRows}}

(***************************************************************************)
(* The state machine.                                                      *)
(***************************************************************************)
InitShape ==
  \E w \in 0..MaxNodes :
    /\ before \in ShapeReports[w]
    /\ \E v \in 0..(MaxNodes - w) : after \in ShapeReports[v]

InitStats ==
  /\ before \in StatsReports
  /\ after \in StatsReports

InitScenario ==
  /\ before \in ScenarioReports
  /\ after \in ScenarioReports

\* The builder is not part of the run.
BuilderIdle ==
  /\ disk = Undefined /\ arg = Undefined
  /\ ppc = "idle" /\ rootIndexFile = Undefined
  /\ parsedReport = Undefined /\ calls = <<>>

Init ==
  /\ InitShape \/ InitStats \/ InitScenario
  /\ pc = "start"
  /\ result = Undefined
  /\ BuilderIdle

\* const diffResult = diff(reportA, reportB)
Diff ==
  /\ pc = "start"
  /\ IF diffThrows(before, after)
     THEN result' = TypeError /\ pc' = "failed"
     ELSE result' = diff(before, after) /\ pc' = "done"
  /\ UNCHANGED <<before, after,
                 disk, arg, ppc, rootIndexFile, parsedReport, calls>>

Next == Diff

Spec == Init /\ [][Next]_vars

\* The same caller, given any two trees a parser of the repository
\* builds: the trees above and the flat listings without children lists.
InitListing ==
  /\ before \in ListingReports \cup ScenarioReports
  /\ after \in ListingReports \cup ScenarioReports
  /\ pc = "start"
  /\ result = Undefined
  /\ BuilderIdle

InitAnyTree == Init \/ InitListing

SpecAnyTree == InitAnyTree /\ [][Next]_vars

(***************************************************************************)
(* The report builder (parseRootIndexFile and its helpers) and the locator *)
(* of the root document (findRootIndexFile).                               *)
(*                                                                         *)
(* A path is the sequence of its segments.  A path text, as written in a   *)
(* listing row or given by the caller, is a record [abs, segs].  The file  *)
(* system is a function from the absolute paths that exist to what lies    *)
(* there.  The text of a numeric cell is a record [empty, num, unit]:      *)
(* "85.7 %" is [num |-> 857, unit |-> " %"], "10" is [num |-> 10,          *)
(* unit |-> ""], and an empty cell has empty = TRUE.  Operators take the   *)
(* file system as their parameter fs; it also carries the number of        *)
(* parseChildren calls in progress below the first one (nested).           *)
(***************************************************************************)
PathText(abs, segs) == [abs |-> abs, segs |-> segs]

isAbsolute(path) == path.abs

RECURSIVE normalize(_, _)
\* Resolution of the ".." segments of a path, left to right.
normalize(done, rest) ==
  IF rest = <<>> THEN done
  ELSE IF Head(rest) = ".."
       THEN normalize(IF done = <<>> THEN <<>>
                      ELSE SubSeq(done, 1, Len(done) - 1), Tail(rest))
       ELSE normalize(Append(done, Head(rest)), Tail(rest))

\* resolve(base, path), base being absolute.
resolve(base, path) ==
  normalize(<<>>, IF isAbsolute(path) THEN path.segs ELSE base \o path.segs)

\* Number of leading segments two paths share.
CommonLen(from, to) ==
  Cardinality({i \in 1..Len(from) :
                 /\ i <= Len(to)
                 /\ \A j \in 1..i : from[j] = to[j]})

\* relative(from, to) of two absolute paths: one ".." for every segment of
\* "from" below the common ancestor, then the rest of "to".
relative(from, to) ==
  LET k == CommonLen(from, to)
  IN [i \in 1..(Len(from) - k) |-> ".."] \o SubSeq(to, k + 1, Len(to))

dirname(path) == SubSeq(path, 1, Len(path) - 1)

IndexHtml == PathText(FALSE, <<"index.html">>)

\* Cell texts.
NumberText(n) == [empty |-> FALSE, num |-> n, unit |-> ""]
PercentText(n) == [empty |-> FALSE, num |-> n, unit |-> " %"]
EmptyText == [empty |-> TRUE, num |-> 0, unit |-> ""]
ZeroText == NumberText(0)

\* parseCoverage: the " %" suffix, when there is one, is cut off and the
\* rest is read as a number.  (The texts of the model all hold a number.)
parseCoverage(coverage) ==
  IF coverage.unit = " %"
  THEN [coverage EXCEPT !.unit = ""].num
  ELSE coverage.num

\* function parseStats: absent when there is no header cell or no value
\* cell; a header cell without a value cell at its position raises.
RECURSIVE summaryOf(_, _, _)
summaryOf(summaryHeaders, summaryValues, n) ==
  IF n = 0 THEN EmptyMap
  ELSE MapSet(summaryOf(summaryHeaders, summaryValues, n - 1),
              summaryHeaders[n], parseCoverage(summaryValues[n]))

parseStats(document) ==
  LET summaryHeaders == document.summaryHeaders
      summaryValues == document.summaryValues
  IN IF Len(summaryHeaders) = 0 \/ Len(summaryValues) = 0 THEN Undefined
     ELSE IF Len(summaryValues) < Len(summaryHeaders) THEN TypeError
     ELSE summaryOf(summaryHeaders, summaryValues, Len(summaryHeaders))

IsStats(stats) == "keys" \in DOMAIN stats

\* Object.keys(parseStats(document) || {})
parseStatKeys(document) ==
  LET stats == parseStats(document)
  IN IF IsStats(stats) THEN stats.keys ELSE <<>>

\* function tableType: the text of the first cell of the listing's header
\* row, when it is "Directory" or "File".
tableType(document) ==
  IF document.tableHead \in {"Directory", "File"}
  THEN document.tableHead ELSE "undefined"

tableRows(document) == document.rows

\* The name cell parseEntries looks for in the rows of a table.
nameCellOf(tableTypeValue) ==
  IF tableTypeValue = "Directory" THEN "coverDirectory" ELSE "coverFile"

\* The statistics of one row: Coverage from the percentage cell, Total and
\* Hit preset to 0, then the key at position index takes the cell at
\* position index of the cells from the fourth column on; the text of an
\* empty cell is replaced by "0".
numberOf(cell) == parseCoverage(IF cell.empty THEN ZeroText ELSE cell)

Position(keys, key) == CHOOSE i \in DOMAIN keys : keys[i] = key

rowStats(row, keys) ==
  LET named == {keys[i] : i \in DOMAIN keys}
  IN [key \in {"Coverage", "Total", "Hit"} \cup named |->
        IF key \in named THEN numberOf(row.numbers[Position(keys, key)])
        ELSE IF key = "Coverage" THEN parseCoverage(row.coverage)
        ELSE 0]

\* Reading a row raises: no percentage cell of any of the three classes,
\* or fewer cells from the fourth column on than keys (numbers[index] is
\* undefined and its textContent is read).
rowThrows(row, keys) ==
  \/ row.cover = "none"
  \/ Len(row.numbers) < Len(keys)

\* function parseEntries: the rows that have the name cell of the table's
\* kind, in row order, each with its path, the table's kind and its
\* statistics.
filterKeys(keys) == SelectSeq(keys, LAMBDA key : key # "Coverage")

\* Variant: every row is read, with or without the name cell.
namedRowsUnfiltered(document) == tableRows(document)

namedRows(document) ==
  SelectSeq(tableRows(document),
            LAMBDA row : row.nameCell = nameCellOf(tableType(document)))

entriesOf(tableTypeValue, keys, rows) ==
  IF \E i \in DOMAIN rows : rowThrows(rows[i], keys)
  THEN TypeError
  ELSE [entries |->
          [i \in DOMAIN rows |->
             [path |-> rows[i].path, type |-> tableTypeValue,
              stats |-> rowStats(rows[i], keys)]]]

parseEntries(document) ==
  IF parseStats(document) = TypeError THEN TypeError
  ELSE entriesOf(tableType(document),
                 filterKeys(parseStatKeys(document)),
                 namedRows(document))

\* What lies at a path of the file system.
DirectoryAt == [kind |-> "directory"]
FileAt(document) == [kind |-> "file", document |-> document]
ArchiveAt(archive) == [kind |-> "file", archive |-> archive]

existsSync(fs, path) == path \in DOMAIN fs.files

\* Deno.statSync(path).isDirectory
isDirectory(fs, path) ==
  path \in DOMAIN fs.files /\ fs.files[path].kind = "directory"

\* extname of the last segment of a path, for the names of the model.
extname(path) ==
  IF path = <<>> THEN ""
  ELSE LET name == path[Len(path)]
       IN IF name = "report.zip" THEN ".zip"
          ELSE IF name = "REPORT.ZIP" THEN ".ZIP"
          ELSE IF name = "index.html" THEN ".html"
          ELSE IF name = "notes.txt" THEN ".txt"
          ELSE ""

toLowerCase(ext) == IF ext = ".ZIP" THEN ".zip" ELSE ext

\* unzip -o path -d tempDir: every member of the archive is written below
\* tempDir, which Deno.makeTempDir created.
unzip(files, path, tempDir) ==
  LET archive == files[path].archive
      written == {tempDir \o member : member \in DOMAIN archive}
  IN [p \in DOMAIN files \cup {tempDir} \cup written |->
        IF p \in written THEN archive[SubSeq(p, Len(tempDir) + 1, Len(p))]
        ELSE IF p = tempDir THEN DirectoryAt
        ELSE files[p]]

Found(indexFile, root, fs) ==
  [absolutePath |-> indexFile,
   relative |-> [root |-> root, relativePath |-> IndexHtml],
   fs |-> fs]

Thrown(message, fs) == [error |-> message, fs |-> fs]

\* Variant: the directory is accepted without looking for its index.html.
indexFileFoundAlways(fs, indexFile) == TRUE

\* existsSync(indexFile), for the index.html directly under the root.
indexFileFound(fs, indexFile) == existsSync(fs, indexFile)

\* The end of both branches of findRootIndexFile: the index.html directly
\* under the root is there, or the function raises.
indexFileUnder(fs, root, indexFile, message) ==
  IF indexFileFound(fs, indexFile)
  THEN Found(indexFile, root, fs)
  ELSE Thrown(message, fs)

\* const tempDir = await Deno.makeTempDir()
makeTempDir(fs) ==
  [fs EXCEPT !.files = [p \in DOMAIN @ \cup {fs.tempDir} |->
                          IF p = fs.tempDir THEN DirectoryAt ELSE @[p]]]

\* The archive has been extracted into the temporary directory.
extracted(fs, given) ==
  [fs EXCEPT !.files = unzip(@, given, fs.tempDir)]

\* The branch of the .zip archives.
findInArchive(fs, given) ==
  IF fs.unzip = "not found" THEN Thrown("unzip command not found", fs)
  ELSE IF fs.unzip = "fails" \/ "archive" \notin DOMAIN fs.files[given]
  THEN Thrown("Failed to unzip file", makeTempDir(fs))
  ELSE indexFileUnder(extracted(fs, given), PathText(TRUE, fs.tempDir),
                      resolve(fs.tempDir, IndexHtml),
                      "No index.html file found in zip")

\* findRootIndexFile for the given path resolved from the working
\* directory.
findGiven(fs, path, given) ==
  IF ~existsSync(fs, given) THEN Thrown("Path does not exist", fs)
  ELSE IF isDirectory(fs, given)
  THEN indexFileUnder(fs, path, resolve(given, IndexHtml),
                      "No index.html file found in directory")
  ELSE IF toLowerCase(extname(given)) = ".zip"
  THEN findInArchive(fs, given)
  ELSE Thrown("Path is not a directory or a zip file", fs)

\* function findRootIndexFile.  fs.cwd is the working directory relative
\* paths are resolved against, fs.unzip tells whether the unzip command is
\* there and how it exits on an archive, fs.tempDir is the directory
\* Deno.makeTempDir creates.
findRootIndexFile(fs, path) == findGiven(fs, path, resolve(fs.cwd, path))

\* A document without a summary and without a listing: what the DOM parser
\* makes of a file that is no report page.
BlankDocument ==
  [summaryHeaders |-> <<>>, summaryValues |-> <<>>, tableHead |-> "",
   rows |-> <<>>]

\* function openDocument: Deno.readTextFile raises for a path that is
\* missing or a directory; parseFromString raises for no text.
openDocument(fs, filepath) ==
  IF ~existsSync(fs, filepath) THEN [error |-> "NotFound"]
  ELSE IF isDirectory(fs, filepath) THEN [error |-> "IsADirectory"]
  ELSE IF "document" \in DOMAIN fs.files[filepath]
       THEN fs.files[filepath].document
       ELSE BlankDocument

Event(op, path) == [op |-> op, path |-> path]

\* isAbsolute(entry.path) ? entry.path : resolve(rootDirectory, entry.path)
absoluteOf(rootDirectory, entry) ==
  IF isAbsolute(entry.path) THEN entry.path.segs
  ELSE resolve(rootDirectory, entry.path)

\* isAbsolute(entry.path) ? relative(rootDirectory, entry.path) : entry.path
relativeOf(rootDirectory, entry) ==
  IF isAbsolute(entry.path) THEN relative(rootDirectory, entry.path.segs)
  ELSE entry.path.segs

NodePath(rootDirectory, entry) ==
  [absolute |-> absoluteOf(rootDirectory, entry),
   relative |-> relativeOf(rootDirectory, entry)]

fileNode(rootDirectory, entry) ==
  [type |-> "File", path |-> NodePath(rootDirectory, entry),
   stats |-> entry.stats]

\* Variant: the files keep the paths the nested call gave them.
attachedChildrenAsParsed(rootDirectory, childChildren) ==
  SelectSeq(childChildren, LAMBDA child : child.type = "File")

\* childChildren.flatMap(...): the File children, in order, with their
\* relative path computed again from rootDirectory; every other child
\* maps to [].
attachedChildren(rootDirectory, childChildren) ==
  LET files == SelectSeq(childChildren, LAMBDA child : child.type = "File")
  IN [i \in DOMAIN files |->
        [files[i] EXCEPT !.path =
           [absolute |-> @.absolute,
            relative |-> relative(rootDirectory, @.absolute)]]]

\* Variant: the directory takes the summary of its own document.
directoryNodeOwnSummary(rootDirectory, entry, childDocument, childChildren) ==
  [type |-> "Directory", path |-> NodePath(rootDirectory, entry),
   stats |-> IF IsStats(parseStats(childDocument))
             THEN parseStats(childDocument).get ELSE entry.stats,
   children |-> attachedChildren(rootDirectory, childChildren)]

directoryNode(rootDirectory, entry, childDocument, childChildren) ==
  [type |-> "Directory", path |-> NodePath(rootDirectory, entry),
   stats |-> entry.stats,
   children |-> attachedChildren(rootDirectory, childChildren)]

\* Variant: the node is put in front of the ones built so far.
pushFront(children, node) == <<node>> \o children

\* children.push(node)
push(children, node) == Append(children, node)

\* Variant: a failure of an awaited call is dropped and the loop goes on.
thrownNever(step) == FALSE

\* An awaited call raised: the exception leaves parseChildren.
thrown(step) == "error" \in DOMAIN step

RECURSIVE parseChildren(_, _, _)
RECURSIVE forEntries(_, _, _, _, _, _)

\* await parseChildren(...) inside parseChildren: one more call in
\* progress.  The call is not followed deeper than MaxDepth.
nestedChildren(rootDirectory, document, fs) ==
  IF fs.nested >= MaxDepth
  THEN [error |-> "running", children |-> <<>>, log |-> <<>>]
  ELSE parseChildren(rootDirectory, document,
                     [fs EXCEPT !.nested = @ + 1])

\* The calls made for a Directory entry before its children are built.
entryCalls(rootDirectory, entry, filepath) ==
  <<Event("findRootIndexFile", absoluteOf(rootDirectory, entry)),
    Event("openDocument", filepath)>>

\* The children of the directory have been built, or building them raised.
builtEntry(rootDirectory, entry, filepath, childDocument, childChildren) ==
  IF "error" \in DOMAIN childChildren
  THEN [error |-> childChildren.error, nodes |-> <<>>,
        log |-> entryCalls(rootDirectory, entry, filepath)
                  \o childChildren.log]
  ELSE [nodes |-> <<directoryNode(rootDirectory, entry, childDocument,
                                  childChildren.children)>>,
        log |-> entryCalls(rootDirectory, entry, filepath)
                  \o childChildren.log]

\* The document of the directory has been opened, or opening it raised.
openedEntry(rootDirectory, entry, fs, filepath, childDocument) ==
  IF "error" \in DOMAIN childDocument
  THEN [error |-> childDocument.error, nodes |-> <<>>,
        log |-> entryCalls(rootDirectory, entry, filepath)]
  ELSE builtEntry(rootDirectory, entry, filepath, childDocument,
                  nestedChildren(
                    resolve(rootDirectory,
                            PathText(FALSE, relativeOf(rootDirectory, entry))),
                    childDocument, fs))

\* The document of the directory has been located, or locating it raised.
locatedEntry(rootDirectory, entry, fs, indexFilePath) ==
  IF "error" \in DOMAIN indexFilePath
  THEN [error |-> indexFilePath.error, nodes |-> <<>>,
        log |-> <<Event("findRootIndexFile",
                        absoluteOf(rootDirectory, entry))>>]
  ELSE openedEntry(rootDirectory, entry, fs, indexFilePath.absolutePath,
                   openDocument(fs, indexFilePath.absolutePath))

\* case "Directory": locate the document of the directory, open it, build
\* its children, then make the node.  Yields the node built (or none), the
\* calls made, and the error when one of them raised.
directoryEntry(rootDirectory, entry, fs) ==
  locatedEntry(rootDirectory, entry, fs,
               findRootIndexFile(fs, PathText(TRUE,
                                   absoluteOf(rootDirectory, entry))))

\* One iteration of "for (const entry of entries)".
entryStep(rootDirectory, entry, fs) ==
  IF entry.type = "Directory" THEN directoryEntry(rootDirectory, entry, fs)
  ELSE IF entry.type = "File"
       THEN [nodes |-> <<fileNode(rootDirectory, entry)>>, log |-> <<>>]
       ELSE [nodes |-> <<>>, log |-> <<>>]

\* The calls of an entry put after the calls of the entries that follow.
callsDeferred(rest, log) == [rest EXCEPT !.log = @ \o log]

\* Variant: the loop goes on with the next entry while the documents below
\* the entry are still being loaded.
afterEntryDeferred(rootDirectory, entries, i, children, log, fs, step) ==
  IF thrown(step)
  THEN [error |-> step.error, children |-> <<>>, log |-> log \o step.log]
  ELSE callsDeferred(forEntries(rootDirectory, entries, i + 1,
                                IF step.nodes = <<>> THEN children
                                ELSE push(children, step.nodes[1]),
                                log, fs),
                     step.log)

\* The end of one iteration: the exception leaves the loop, or the node is
\* pushed and the loop goes on with the next entry.
afterEntry(rootDirectory, entries, i, children, log, fs, step) ==
  IF thrown(step)
  THEN [error |-> step.error, children |-> <<>>, log |-> log \o step.log]
  ELSE forEntries(rootDirectory, entries, i + 1,
                  IF step.nodes = <<>> THEN children
                  ELSE push(children, step.nodes[1]),
                  log \o step.log, fs)

forEntries(rootDirectory, entries, i, children, log, fs) ==
  IF i > Len(entries) THEN [children |-> children, log |-> log]
  ELSE afterEntry(rootDirectory, entries, i, children,
                  Append(log, Event("entry",
                                    absoluteOf(rootDirectory, entries[i]))),
                  fs, entryStep(rootDirectory, entries[i], fs))

\* The loop of parseChildren over the entries parseEntries returned.
childrenOf(rootDirectory, entries, fs) ==
  IF entries = TypeError
  THEN [error |-> "TypeError", children |-> <<>>,
        log |-> <<Event("parseEntries", rootDirectory)>>]
  ELSE forEntries(rootDirectory, entries.entries, 1, <<>>,
                  <<Event("parseEntries", rootDirectory)>>, fs)

\* function parseChildren: all rows are read first (parseEntries), then
\* the entries are handled one after the other.
parseChildren(rootDirectory, document, fs) ==
  childrenOf(rootDirectory, parseEntries(document), fs)

\* The object parseRootIndexFile returns, from the children built.
reportOf(rootDirectory, rootStats, children) ==
  IF "error" \in DOMAIN children
  THEN [error |-> children.error, log |-> children.log]
  ELSE [value |-> [directory |-> rootDirectory,
                   root |-> [stats |-> rootStats.get,
                             children |-> children.children]],
        log |-> children.log]

\* return {directory, root: {stats, children: await parseChildren(...)}}
rootReport(rootDirectory, rootDocument, rootStats, fs) ==
  reportOf(rootDirectory, rootStats,
           parseChildren(rootDirectory, rootDocument, fs))

\* The report built is given up when there are no statistics.
unlessAbsent(rootStats, built) ==
  IF rootStats = Undefined
  THEN [value |-> Undefined, log |-> built.log]
  ELSE built

\* Variant: the children are built before the summary is looked at.
rootResultEager(rootDirectory, rootDocument, rootStats, fs) ==
  unlessAbsent(rootStats,
               rootReport(rootDirectory, rootDocument,
                          IF rootStats = Undefined THEN EmptyMap
                          ELSE rootStats, fs))

\* if (!rootStats) return; return {directory, root}
rootResult(rootDirectory, rootDocument, rootStats, fs) ==
  IF rootStats = Undefined THEN [value |-> Undefined, log |-> <<>>]
  ELSE rootReport(rootDirectory, rootDocument, rootStats, fs)

\* The calls of parseRootIndexFile start with the opening of the root
\* document.
afterOpen(filepath, built) ==
  [built EXCEPT !.log = <<Event("openDocument", filepath)>> \o @]

\* parseRootIndexFile once the summary of the root document is parsed.
fromStats(fs, filepath, rootDocument, rootStats) ==
  IF rootStats = TypeError
  THEN [error |-> "TypeError", log |-> <<Event("openDocument", filepath)>>]
  ELSE afterOpen(filepath, rootResult(dirname(filepath), rootDocument,
                                      rootStats, fs))

\* parseRootIndexFile once the root document is opened.
fromDocument(fs, filepath, rootDocument) ==
  IF "error" \in DOMAIN rootDocument
  THEN [error |-> rootDocument.error,
        log |-> <<Event("openDocument", filepath)>>]
  ELSE fromStats(fs, filepath, rootDocument, parseStats(rootDocument))

\* function parseRootIndexFile.  Yields the value returned or the error
\* raised, and the calls made in their order.
parseRootIndexFile(fs, filepath) ==
  fromDocument(fs, filepath, openDocument(fs, filepath))

(***************************************************************************)
(* The reports the builder is run on.                                      *)
(***************************************************************************)
Document(summary, tableHead, rows) ==
  [summaryHeaders |-> summary.headers, summaryValues |-> summary.values,
   tableHead |-> tableHead, rows |-> rows]

Row(nameCell, path, cover, coverage, numbers) ==
  [nameCell |-> nameCell, path |-> path, cover |-> cover,
   coverage |-> coverage, numbers |-> numbers]

NoSummary == [headers |-> <<>>, values |-> <<>>]

Summary3(coverage, total, hit) ==
  [headers |-> <<"Coverage", "Total", "Hit">>,
   values |-> <<PercentText(coverage), NumberText(total), NumberText(hit)>>]

Summary4(coverage, total, hit, unc) ==
  [headers |-> <<"Coverage", "Total", "Hit", "UNC">>,
   values |-> <<PercentText(coverage), NumberText(total), NumberText(hit),
                NumberText(unc)>>]

DirectoryRow(name) ==
  Row("coverDirectory", PathText(FALSE, <<name>>), "coverPerMed",
      PercentText(857), <<NumberText(10), NumberText(5), NumberText(1)>>)

FileRow(path, numbers) ==
  Row("coverFile", path, "coverPerHi", PercentText(900), numbers)

\* Names of the directories the root document may list.  "gone" has no
\* index.html; the document of "nosum" has no summary; "deep" lists the
\* directory "sub"; "deep2" lists "locked", whose index.html cannot be
\* read.
DirectoryNames == {"dir", "nosum", "deep", "gone", "deep2"}

FailingNames == {"gone", "deep2"}

\* The rows of the root document: one row per directory; a file with all
\* cells, with an empty cell, with two cells only, with an absolute path
\* outside the report, without a percentage cell; a row without name cell.
RootRows ==
  {DirectoryRow(name) : name \in DirectoryNames} \cup
  {FileRow(PathText(FALSE, <<"a.c">>),
           <<NumberText(10), NumberText(9), NumberText(1)>>),
   FileRow(PathText(FALSE, <<"e.c">>),
           <<NumberText(10), EmptyText, NumberText(1)>>),
   FileRow(PathText(FALSE, <<"e.c">>), <<NumberText(4), NumberText(2)>>),
   FileRow(PathText(TRUE, <<"o", "f.c">>),
           <<NumberText(10), NumberText(9), NumberText(1)>>),
   Row("coverFile", PathText(FALSE, <<"g.c">>), "none", EmptyText,
       <<NumberText(10), NumberText(9), NumberText(1)>>),
   Row("none", PathText(FALSE, <<>>), "none", EmptyText, <<>>)}

\* A summary whose value row has no cell.
HeadersOnly == [headers |-> <<"Coverage", "Total", "Hit">>, values |-> <<>>]

RootSummaries ==
  {NoSummary, HeadersOnly, Summary3(900, 20, 18), Summary4(900, 20, 18, 2)}

TableHeads == {"Directory", "File", ""}

RowsUpTo(n) == UNION {SeqOfLen(RootRows, k) : k \in 0..n}

\* Summaries whose value row has fewer, or more, cells than the header
\* row.
ShortValues ==
  [headers |-> <<"Coverage", "Total", "Hit">>,
   values |-> <<PercentText(900), NumberText(20)>>]

LongValues ==
  [headers |-> <<"Coverage", "Total">>,
   values |-> <<PercentText(900), NumberText(20), NumberText(18)>>]

UnevenDocuments ==
  {Document(summary, tableHead, rows) :
     summary \in {ShortValues, LongValues}, tableHead \in TableHeads,
     rows \in RowsUpTo(1)}

\* Root documents that list the directory "loop", whose own document
\* lists the directory it lies in.
CyclicDocuments ==
  {Document(Summary3(900, 20, 18), "Directory", rows) :
     rows \in {<<DirectoryRow("loop")>>,
               <<DirectoryRow("dir"), DirectoryRow("loop")>>,
               <<DirectoryRow("loop"), DirectoryRow("dir")>>}}

RootDocuments ==
  {Document(summary, tableHead, rows) :
     summary \in RootSummaries, tableHead \in TableHeads,
     rows \in RowsUpTo(MaxRows)} \cup UnevenDocuments \cup CyclicDocuments

\* The document the other ways of naming the report are tried with.
PlainDocument ==
  Document(Summary3(900, 20, 18), "Directory",
           <<DirectoryRow("dir"), DirectoryRow("deep")>>)

\* The documents of the directories.
DirDocument ==
  Document(Summary3(800, 30, 24), "File",
           <<FileRow(PathText(FALSE, <<"b.c">>),
                     <<NumberText(20), NumberText(16)>>),
             FileRow(PathText(FALSE, <<"c.c">>),
                     <<NumberText(10), EmptyText>>)>>)

NoSummaryDocument ==
  Document(NoSummary, "File",
           <<FileRow(PathText(FALSE, <<"n.c">>),
                     <<NumberText(7), NumberText(6)>>)>>)

DeepDocument ==
  Document(Summary3(750, 8, 6), "Directory", <<DirectoryRow("sub")>>)

SubDocument ==
  Document(Summary3(750, 8, 6), "File",
           <<FileRow(PathText(FALSE, <<"d.c">>),
                     <<NumberText(8), NumberText(6)>>)>>)

Deep2Document ==
  Document(Summary3(500, 2, 1), "Directory",
           <<DirectoryRow("locked"), DirectoryRow("sub")>>)

\* The document of the directory "loop": one Directory row, "../loop".
LoopDocument ==
  Document(Summary3(500, 2, 1), "Directory",
           <<[DirectoryRow("loop") EXCEPT
                !.path = PathText(FALSE, <<"..", "loop">>)]>>)

\* The files of a report, by their path below the report directory.
ReportTree(rootDocument) ==
  (<<>> :> DirectoryAt) @@
  (<<"index.html">> :> FileAt(rootDocument)) @@
  (<<"dir">> :> DirectoryAt) @@
  (<<"dir", "index.html">> :> FileAt(DirDocument)) @@
  (<<"nosum">> :> DirectoryAt) @@
  (<<"nosum", "index.html">> :> FileAt(NoSummaryDocument)) @@
  (<<"deep">> :> DirectoryAt) @@
  (<<"deep", "index.html">> :> FileAt(DeepDocument)) @@
  (<<"deep", "sub">> :> DirectoryAt) @@
  (<<"deep", "sub", "index.html">> :> FileAt(SubDocument)) @@
  (<<"gone">> :> DirectoryAt) @@
  (<<"deep2">> :> DirectoryAt) @@
  (<<"deep2", "index.html">> :> FileAt(Deep2Document)) @@
  (<<"deep2", "locked">> :> DirectoryAt) @@
  (<<"deep2", "locked", "index.html">> :> DirectoryAt) @@
  (<<"deep2", "sub">> :> DirectoryAt) @@
  (<<"deep2", "sub", "index.html">> :> FileAt(SubDocument)) @@
  (<<"loop">> :> DirectoryAt) @@
  (<<"loop", "index.html">> :> FileAt(LoopDocument))

\* The same files one directory down: an archive of the folder "report".
NestedTree(rootDocument) ==
  LET tree == ReportTree(rootDocument)
  IN [p \in {<<"report">> \o q : q \in DOMAIN tree} |-> tree[Tail(p)]]

Below(root, tree) ==
  [p \in {root \o q : q \in DOMAIN tree} |->
     tree[SubSeq(p, Len(root) + 1, Len(p))]]

ReportRoot == <<"r">>
WorkingDirectory == <<"w">>
TempDir == <<"tmp">>

Files(rootDocument) ==
  Below(ReportRoot, ReportTree(rootDocument)) @@
  Below(<<"w", "rep">>, ReportTree(rootDocument)) @@
  (<<"e">> :> DirectoryAt) @@
  (<<"notes.txt">> :> FileAt(BlankDocument)) @@
  (<<"z">> :> DirectoryAt) @@
  (<<"z", "report.zip">> :> ArchiveAt(ReportTree(rootDocument))) @@
  (<<"z", "REPORT.ZIP">> :> ArchiveAt(ReportTree(rootDocument))) @@
  (<<"n">> :> DirectoryAt) @@
  (<<"n", "report.zip">> :> ArchiveAt(NestedTree(rootDocument)))

RootArg == PathText(TRUE, ReportRoot)

\* The other paths findRootIndexFile is called with: a relative path, a
\* directory without index.html, a path that does not exist, a text file,
\* three archives.
OtherArgs ==
  {PathText(FALSE, <<"rep">>), PathText(TRUE, <<"e">>),
   PathText(TRUE, <<"missing">>), PathText(TRUE, <<"notes.txt">>),
   PathText(TRUE, <<"z", "report.zip">>),
   PathText(TRUE, <<"z", "REPORT.ZIP">>),
   PathText(TRUE, <<"n", "report.zip">>)}

UnzipStates == {"ok", "not found", "fails"}

FileSystem(rootDocument, unzipState) ==
  [files |-> Files(rootDocument), cwd |-> WorkingDirectory,
   unzip |-> unzipState, tempDir |-> TempDir, nested |-> 0]

(***************************************************************************)
(* The state machine of the builder: the caller locates the root document  *)
(* of the report named by arg, then builds the report from it.             *)
(***************************************************************************)
\* The differ has not been called.
DifferIdle ==
  /\ before = Undefined /\ after = Undefined
  /\ pc = "idle" /\ result = Undefined

InitReport ==
  /\ \E rootDocument \in RootDocuments, unzipState \in UnzipStates :
       /\ disk = FileSystem(rootDocument, unzipState)
       /\ \/ arg = RootArg /\ unzipState = "ok"
          \/ arg \in OtherArgs /\ rootDocument = PlainDocument
  /\ ppc = "find"
  /\ rootIndexFile = Undefined
  /\ parsedReport = Undefined
  /\ calls = <<>>
  /\ DifferIdle

\* The caller takes what findRootIndexFile returned or raised.
Located(found) ==
  /\ disk' = found.fs
  /\ IF "error" \in DOMAIN found
     THEN rootIndexFile' = [error |-> found.error] /\ ppc' = "failed"
     ELSE /\ rootIndexFile' = [absolutePath |-> found.absolutePath,
                               relative |-> found.relative]
          /\ ppc' = "parse"

\* const rootIndexFile = await findRootIndexFile(Deno.args[0])
Find ==
  /\ ppc = "find"
  /\ Located(findRootIndexFile(disk, arg))
  /\ UNCHANGED <<arg, parsedReport, calls, before, after, pc, result>>

\* The caller takes what parseRootIndexFile returned or raised.
Parsed(parsed) ==
  /\ calls' = parsed.log
  /\ IF "error" \in DOMAIN parsed
     THEN IF parsed.error = "running"
          THEN parsedReport' = Undefined /\ ppc' = "running"
          ELSE parsedReport' = [error |-> parsed.error] /\ ppc' = "failed"
     ELSE parsedReport' = parsed.value /\ ppc' = "done"

\* const report = await parseRootIndexFile(rootIndexFile.absolutePath)
Parse ==
  /\ ppc = "parse"
  /\ Parsed(parseRootIndexFile(disk, rootIndexFile.absolutePath))
  /\ UNCHANGED <<disk, arg, rootIndexFile, before, after, pc, result>>

NextReport == Find \/ Parse

SpecReport == InitReport /\ [][NextReport]_vars

(***************************************************************************)
(* Vocabulary of the properties.                                           *)
(***************************************************************************)
Done == pc = "done"

Rel(n) == n.path.relative

PathsOf(children) == {Rel(children[i]) : i \in DOMAIN children}

\* The positions of the nodes of a collection that carry the path k.
Idx(children, k) == {i \in DOMAIN children : Rel(children[i]) = k}

Sole(children, k) == Cardinality(Idx(children, k)) = 1

TheNode(children, k) == children[CHOOSE i \in Idx(children, k) : TRUE]

\* The positions of the DiffNodes of a list that carry the path k.
DIdx(diffs, k) == {i \in DOMAIN diffs : diffs[i].path = k}

Emitted(diffs, k) == DIdx(diffs, k) # {}

TheDiff(diffs, k) == diffs[CHOOSE i \in DIdx(diffs, k) : TRUE]

\* Coverage, Total and Hit agree.
BaseEq(s, t) ==
  s.Coverage = t.Coverage /\ s.Total = t.Total /\ s.Hit = t.Hit

\* Statistics as deltas from an all-zero baseline.
FromZero(s) ==
  [Coverage |-> s.Coverage, Total |-> s.Total, Hit |-> s.Hit,
   CoverageDelta |-> s.Coverage, TotalDelta |-> s.Total, HitDelta |-> s.Hit]

IsDir(children, k) == Sole(children, k) /\ TheNode(children, k).type = "Directory"

IsFile(children, k) == Sole(children, k) /\ TheNode(children, k).type = "File"

\* The root level of a finished diff: both children collections and the
\* DiffNodes returned for them.
RootLevel ==
  [a |-> before.root.children, b |-> after.root.children,
   d |-> result.children]

\* The paths that are one Directory on both sides and have a changed node.
MatchedDirs(L) ==
  {k \in PathsOf(L.a) \cap PathsOf(L.b) :
     /\ IsDir(L.a, k) /\ IsDir(L.b, k)
     /\ Cardinality(DIdx(L.d, k)) = 1
     /\ TheDiff(L.d, k).type = "changed"}

\* The level below a matched directory.
NestedLevel(L, k) ==
  [a |-> TheNode(L.a, k).children, b |-> TheNode(L.b, k).children,
   d |-> TheDiff(L.d, k).children]

\* Every level diffChildren compared and returned a list for.
Levels ==
  {RootLevel} \cup {NestedLevel(RootLevel, k) : k \in MatchedDirs(RootLevel)}

\* The statistics comparisons behind the returned stats records: the root,
\* and every changed node whose path names one node on each side.
StatsOfLevel(L) ==
  {[a |-> TheNode(L.a, k).stats, b |-> TheNode(L.b, k).stats,
    d |-> TheDiff(L.d, k).stats] :
     k \in {k \in PathsOf(L.a) \cap PathsOf(L.b) :
              /\ Sole(L.a, k) /\ Sole(L.b, k)
              /\ Cardinality(DIdx(L.d, k)) = 1
              /\ TheDiff(L.d, k).type = "changed"}}

Comparisons ==
  {[a |-> before.root.stats, b |-> after.root.stats, d |-> result.stats]}
    \cup UNION {StatsOfLevel(L) : L \in Levels}

C3_RemovedAt(L) ==
  \A k \in PathsOf(L.a) \ PathsOf(L.b) :
    /\ Cardinality(DIdx(L.d, k)) = 1
    /\ LET n == TheDiff(L.d, k)
       IN /\ n.type = "removed"
          /\ n.path = k
          /\ n.nodeType \in {L.a[i].type : i \in Idx(L.a, k)}
          /\ DOMAIN n = {"type", "nodeType", "path"}

C3_Removed == Done => \A L \in Levels : C3_RemovedAt(L)

\* A directory with two files is in before only (full removal).
C3_Witness ==
  /\ Done
  /\ \E k \in PathsOf(RootLevel.a) \ PathsOf(RootLevel.b) :
       /\ IsDir(RootLevel.a, k)
       /\ Len(TheNode(RootLevel.a, k).children) = 2

\* C7: the root of the result carries a stats delta if and only if
\* Coverage, Total or Hit differs between the two root statistics, and its
\* children are the diff of the two root children collections.
C7_Root ==
  Done =>
    /\ (result.stats # Undefined) <=>
         ~BaseEq(before.root.stats, after.root.stats)
    /\ result.children =
         diffChildren(before.root.children, after.root.children)

\* The two roots differ in Hit only, and a delta was produced.
C7_Witness ==
  /\ Done
  /\ before.root.stats.Hit # after.root.stats.Hit
  /\ before.root.stats.Coverage = after.root.stats.Coverage
  /\ before.root.stats.Total = after.root.stats.Total
  /\ result.stats # Undefined

C10_StatsOfSecond ==
  Done =>
    \A c \in Comparisons :
      c.d # Undefined =>
        /\ c.d.Coverage = c.b.Coverage
        /\ c.d.Total = c.b.Total
        /\ c.d.Hit = c.b.Hit
        /\ c.d.CoverageDelta = c.b.Coverage - c.a.Coverage
        /\ c.d.TotalDelta = c.b.Total - c.a.Total
        /\ c.d.HitDelta = c.b.Hit - c.a.Hit

\* A file went from Hit 5 to Hit 7: changed, HitDelta +2.
C10_Witness ==
  /\ Done
  /\ \E k \in PathsOf(RootLevel.a) \cap PathsOf(RootLevel.b) :
       /\ IsFile(RootLevel.a, k) /\ IsFile(RootLevel.b, k)
       /\ TheNode(RootLevel.a, k).stats.Hit = 5
       /\ TheNode(RootLevel.b, k).stats.Hit = 7
       /\ Emitted(RootLevel.d, k)
       /\ TheDiff(RootLevel.d, k).type = "changed"
       /\ TheDiff(RootLevel.d, k).stats.HitDelta = 2

\* Every path of a collection names one node.
NoDup(children) == \A k \in PathsOf(children) : Sole(children, k)

\* Two collections of files differ at some path: a path of one side only,
\* or a file whose Coverage, Total or Hit differs.
FilesDiffer(ca, cb) ==
  \E p \in PathsOf(ca) \cup PathsOf(cb) :
    \/ p \notin PathsOf(ca)
    \/ p \notin PathsOf(cb)
    \/ ~BaseEq(TheNode(ca, p).stats, TheNode(cb, p).stats)

\* The path k differs between two collections: in presence, in kind, in
\* statistics (Coverage, Total, Hit: the statistics a diff reports) or,
\* for a directory, in its descendants.
PathDiffers(ca, cb, k) ==
  \/ k \notin PathsOf(ca)
  \/ k \notin PathsOf(cb)
  \/ LET x == TheNode(ca, k)
         y == TheNode(cb, k)
     IN \/ x.type # y.type
        \/ ~BaseEq(x.stats, y.stats)
        \/ /\ x.type = "Directory"
           /\ FilesDiffer(x.children, y.children)

\* The collections of a level and of the directories below it name every
\* node by a path of its own.
WellKeyed(children) ==
  /\ NoDup(children)
  /\ \A i \in DOMAIN children :
       children[i].type = "Directory" => NoDup(children[i].children)

\* C2: for every pair of trees and every relative path occurring in either,
\* a DiffNode is emitted for the path if and only if its presence, its kind,
\* its statistics or its set of descendants differs between the two trees.
C2_EmittedIffDiffers ==
  (Done /\ WellKeyed(before.root.children) /\ WellKeyed(after.root.children))
    => \A L \in Levels :
         \A k \in PathsOf(L.a) \cup PathsOf(L.b) :
           Emitted(L.d, k) <=> PathDiffers(L.a, L.b, k)

\* C6: for a key that is a File on both sides, one changed File DiffNode is
\* emitted if and only if Coverage, Total or Hit differs; when the three
\* are equal nothing is emitted, whatever the other categories are.
C6_FileAt(L) ==
  \A k \in PathsOf(L.a) \cap PathsOf(L.b) :
    (IsFile(L.a, k) /\ IsFile(L.b, k)) =>
      IF BaseEq(TheNode(L.a, k).stats, TheNode(L.b, k).stats)
      THEN ~Emitted(L.d, k)
      ELSE /\ Cardinality(DIdx(L.d, k)) = 1
           /\ TheDiff(L.d, k).type = "changed"
           /\ TheDiff(L.d, k).nodeType = "File"
           /\ TheDiff(L.d, k).stats # Undefined
           /\ "children" \notin DOMAIN TheDiff(L.d, k)

C6_FileChanged == Done => \A L \in Levels : C6_FileAt(L)

\* A file present on both sides differs in UNC only: nothing is emitted.
C6_Witness ==
  /\ Done
  /\ \E k \in PathsOf(RootLevel.a) \cap PathsOf(RootLevel.b) :
       /\ IsFile(RootLevel.a, k) /\ IsFile(RootLevel.b, k)
       /\ TheNode(RootLevel.a, k).stats.UNC # TheNode(RootLevel.b, k).stats.UNC
       /\ BaseEq(TheNode(RootLevel.a, k).stats, TheNode(RootLevel.b, k).stats)
       /\ ~Emitted(RootLevel.d, k)

\* C8: for a key that is a Directory on both sides, exactly one changed
\* Directory DiffNode carrying the diff of the two children collections is
\* emitted when the statistics delta or that child diff is non-empty, and
\* nothing when both are empty; a file added inside the directory is
\* reported under that node and unchanged siblings produce no node.
C8_DirAt(L) ==
  \A k \in PathsOf(L.a) \cap PathsOf(L.b) :
    (/\ IsDir(L.a, k) /\ IsDir(L.b, k)
     /\ NoDup(TheNode(L.a, k).children)
     /\ NoDup(TheNode(L.b, k).children)) =>
      LET x == TheNode(L.a, k)
          y == TheNode(L.b, k)
      IN IF ~BaseEq(x.stats, y.stats) \/ FilesDiffer(x.children, y.children)
         THEN /\ Cardinality(DIdx(L.d, k)) = 1
              /\ LET n == TheDiff(L.d, k)
                 IN /\ n.type = "changed"
                    /\ n.nodeType = "Directory"
                    /\ (n.stats # Undefined) <=> ~BaseEq(x.stats, y.stats)
                    /\ \A p \in PathsOf(x.children) \cup PathsOf(y.children) :
                         /\ Emitted(n.children, p) <=>
                              PathDiffers(x.children, y.children, p)
                         /\ Cardinality(DIdx(n.children, p)) <= 1
                         /\ p \notin PathsOf(x.children) =>
                              TheDiff(n.children, p).type = "added"
                    /\ \A j \in DOMAIN n.children :
                         n.children[j].path \in
                           PathsOf(x.children) \cup PathsOf(y.children)
         ELSE ~Emitted(L.d, k)

C8_DirectoryChanged == Done => C8_DirAt(RootLevel)

\* A directory with equal statistics on both sides gained a file next to
\* an unchanged one.
C8_Witness ==
  /\ Done
  /\ \E k \in MatchedDirs(RootLevel) :
       LET x == TheNode(RootLevel.a, k)
           y == TheNode(RootLevel.b, k)
           n == TheDiff(RootLevel.d, k)
       IN /\ BaseEq(x.stats, y.stats)
          /\ NoDup(x.children) /\ NoDup(y.children)
          /\ PathsOf(y.children) \ PathsOf(x.children) # {}
          /\ \E p \in PathsOf(x.children) \cap PathsOf(y.children) :
               BaseEq(TheNode(x.children, p).stats,
                      TheNode(y.children, p).stats)
          /\ Len(n.children) = 1
          /\ n.children[1].type = "added"

\* The collection without its i-th node.
RemoveAt(children, i) ==
  SubSeq(children, 1, i - 1) \o SubSeq(children, i + 1, Len(children))

\* Every relative path of a tree's children, at any depth.
AllPaths(children) ==
  PathsOf(children) \cup
    UNION {PathsOf(children[i].children) :
             i \in {j \in DOMAIN children : children[j].type = "Directory"}}

\* The added DiffNode of a file: its statistics as deltas from zero.
AddedFile(f) ==
  [type |-> "added", nodeType |-> "File", path |-> Rel(f),
   stats |-> FromZero(f.stats)]

\* after is before plus the file at position i of the root collection.
PlusAtRoot(i) ==
  LET f == after.root.children[i]
  IN /\ f.type = "File"
     /\ before.root.stats = after.root.stats
     /\ before.root.children = RemoveAt(after.root.children, i)
     /\ Rel(f) \notin AllPaths(before.root.children)

\* after is before plus the file at position i of the directory at position
\* j of the root collection, a directory no sibling shares its path with.
PlusInDirectory(j, i) ==
  LET dir == after.root.children[j]
  IN /\ dir.type = "Directory"
     /\ Sole(after.root.children, Rel(dir))
     /\ i \in DOMAIN dir.children
     /\ before.root.stats = after.root.stats
     /\ before.root.children =
          [after.root.children EXCEPT ![j].children = RemoveAt(@, i)]
     /\ Rel(dir.children[i]) \notin AllPaths(before.root.children)

\* C4: for every tree T and every File F whose relative path is not in T,
\* diff(T, T plus F) emits exactly one added DiffNode, for F's path, of kind
\* File, without children, whose stats are F's Coverage, Total and Hit with
\* each delta equal to the same value.  F joins the root collection or a
\* directory that is the only node of its path; in a directory the node is
\* the only child of the directory's changed node.
C4_AddedFile ==
  Done =>
    \A j \in DOMAIN after.root.children :
      /\ PlusAtRoot(j) =>
           result = [stats |-> Undefined,
                     children |-> <<AddedFile(after.root.children[j])>>]
      /\ \A i \in 1..MaxNodes :
           PlusInDirectory(j, i) =>
             result =
               [stats |-> Undefined,
                children |->
                  <<[type |-> "changed", nodeType |-> "Directory",
                     path |-> Rel(after.root.children[j]),
                     stats |-> Undefined,
                     children |->
                       <<AddedFile(after.root.children[j].children[i])>>]>>]

\* A file was added to the root collection of a tree that holds a
\* directory with a file.
C4_Witness ==
  /\ Done
  /\ \E j \in DOMAIN after.root.children : PlusAtRoot(j)
  /\ \E i \in DOMAIN before.root.children :
       /\ before.root.children[i].type = "Directory"
       /\ before.root.children[i].children # <<>>
  /\ Len(result.children) = 1

\* The statistics an added DiffNode may carry for the path p of a
\* collection: those of a node of that path, as deltas from zero.
AddedStatsFor(children, p) ==
  {FromZero(children[i].stats) : i \in Idx(children, p)}

\* The descendants of an added directory, as listed under its DiffNode:
\* one added File node per path of the directory's children.
DescendantsAdded(dir, n) ==
  IF dir.children = <<>>
  THEN "children" \notin DOMAIN n
  ELSE /\ "children" \in DOMAIN n
       /\ {n.children[j].path : j \in DOMAIN n.children} = PathsOf(dir.children)
       /\ \A j \in DOMAIN n.children :
            /\ n.children[j].type = "added"
            /\ n.children[j].nodeType = "File"
            /\ Cardinality(DIdx(n.children, n.children[j].path)) = 1
            /\ n.children[j].stats \in
                 AddedStatsFor(dir.children, n.children[j].path)
            /\ "children" \notin DOMAIN n.children[j]

\* The directories of the after collection whose path is in after only.
AddedDirs(L) ==
  {k \in PathsOf(L.b) \ PathsOf(L.a) : IsDir(L.b, k)}

\* C5 as written: the added DiffNode of a Directory present only in after
\* carries all of the directory's statistics, and every descendant of the
\* directory appears beneath it as an added DiffNode.
C5_AllStatistics ==
  Done =>
    \A k \in AddedDirs(RootLevel) :
      /\ Cardinality(DIdx(RootLevel.d, k)) = 1
      /\ LET dir == TheNode(RootLevel.b, k)
             n == TheDiff(RootLevel.d, k)
         IN /\ n.type = "added" /\ n.nodeType = "Directory"
            /\ \A c \in DOMAIN dir.stats :
                 c \in DOMAIN n.stats /\ n.stats[c] = dir.stats[c]
            /\ DescendantsAdded(dir, n)

\* C5: the added DiffNode of a Directory present only in after carries the
\* directory's Coverage, Total and Hit, each also as its delta from zero,
\* and no other category; every descendant of the directory appears
\* beneath it as an added DiffNode.
C5_AddedDirectory ==
  Done =>
    \A k \in AddedDirs(RootLevel) :
      /\ Cardinality(DIdx(RootLevel.d, k)) = 1
      /\ LET dir == TheNode(RootLevel.b, k)
             n == TheDiff(RootLevel.d, k)
         IN /\ n.type = "added" /\ n.nodeType = "Directory"
            /\ n.stats = FromZero(dir.stats)
            /\ DescendantsAdded(dir, n)

\* A directory with two files of different paths is in after only.
C5_Witness ==
  /\ Done
  /\ \E k \in AddedDirs(RootLevel) :
       /\ Cardinality(PathsOf(TheNode(RootLevel.b, k).children)) = 2
       /\ Len(TheDiff(RootLevel.d, k).children) = 2

\* A well-formed tree: every child is tagged File or Directory, every
\* Directory has a children list (of tagged files with statistics) and
\* every node has statistics.
WellFormedNode(n) ==
  /\ n.type \in {"File", "Directory"}
  /\ "stats" \in DOMAIN n
  /\ n.type = "Directory" =>
       /\ "children" \in DOMAIN n
       /\ \A i \in DOMAIN n.children :
            /\ n.children[i].type = "File"
            /\ "stats" \in DOMAIN n.children[i]

WellFormed(report) ==
  \A i \in DOMAIN report.root.children :
    WellFormedNode(report.root.children[i])

\* C11: diff(before, after) returns a DiffRoot without raising for every
\* pair of well-formed trees (every child tagged File or Directory, every
\* Directory with a children list, every node with numeric statistics).
C11_NeverRaises ==
  (pc # "start" /\ WellFormed(before) /\ WellFormed(after)) =>
    /\ pc = "done"
    /\ DOMAIN result = {"stats", "children"}

\* Two well-formed trees with the same directory, holding files, on both
\* sides have been diffed.
C11_Witness ==
  /\ pc = "done"
  /\ WellFormed(before) /\ WellFormed(after)
  /\ \E i \in DOMAIN before.root.children, j \in DOMAIN after.root.children :
       /\ before.root.children[i].type = "Directory"
       /\ after.root.children[j].type = "Directory"
       /\ Rel(before.root.children[i]) = Rel(after.root.children[j])
       /\ before.root.children[i].children # <<>>

\* A directory without a children list on both sides: diff raises.
ListingRaises ==
  /\ pc = "failed"
  /\ result = TypeError

(***************************************************************************)
(* Vocabulary of the properties of the builder.                            *)
(***************************************************************************)
\* findRootIndexFile returned and parseRootIndexFile ran to its end.
Built == ppc \in {"done", "failed"} /\ "absolutePath" \in DOMAIN rootIndexFile

\* parseRootIndexFile returned a report.
Returned == ppc = "done" /\ parsedReport # Undefined

RootDirectory == dirname(rootIndexFile.absolutePath)

\* The document of a report directory.
DocumentAt(directory) == disk.files[Append(directory, "index.html")].document

RootDocument == DocumentAt(RootDirectory)

NoParseableSummary(document) ==
  document.summaryHeaders = <<>> \/ document.summaryValues = <<>>

\* The calls of one kind, in their order.
CallsOf(op) == SelectSeq(calls, LAMBDA call : call.op = op)

\* The name a row lists, for a row that lists one segment.
NameOf(row) == row.path.segs[1]

\* The rows of a document that list a directory of the given names.
ListsOneOf(document, names) ==
  {i \in DOMAIN namedRows(document) :
     /\ ~isAbsolute(namedRows(document)[i].path)
     /\ NameOf(namedRows(document)[i]) \in names}

\* C12: parseRootIndexFile returns absent, not an error, when the root
\* document has no parseable summary; no listing row is then processed and
\* no subdirectory document is located or opened: the one call made is the
\* opening of the root document.
C12_AbsentWithoutSummary ==
  (Built /\ NoParseableSummary(RootDocument)) =>
    /\ ppc = "done"
    /\ parsedReport = Undefined
    /\ calls = <<Event("openDocument", rootIndexFile.absolutePath)>>

\* The root document has no summary but lists a directory in a Directory
\* table, and the builder returned absent.
C12_Witness ==
  /\ Built /\ NoParseableSummary(RootDocument)
  /\ tableType(RootDocument) = "Directory"
  /\ ListsOneOf(RootDocument, {"dir"}) # {}
  /\ parsedReport = Undefined

\* The nodes of the returned tree, at every depth.
TreeNodes ==
  LET top == parsedReport.root.children
  IN {top[i] : i \in DOMAIN top} \cup
     UNION {{top[i].children[j] : j \in DOMAIN top[i].children} :
              i \in {k \in DOMAIN top : top[k].type = "Directory"}}

\* The relative path of the node leads from the root report directory to
\* its absolute path.
RootRelative(node) ==
  resolve(parsedReport.directory, PathText(FALSE, node.path.relative))
    = node.path.absolute

\* C13: every node of the tree parseRootIndexFile returns, a File or a
\* Directory at any depth, has a path.relative that is its path.absolute
\* expressed relative to the one root report directory, never relative to
\* the directory of the document that lists it.
C13_RelativeToRoot ==
  Returned =>
    /\ parsedReport.directory = RootDirectory
    /\ \A node \in TreeNodes : RootRelative(node)

\* A file listed by the document of a directory is in the returned tree:
\* its row names it relative to that directory.
C13_Witness ==
  /\ Returned
  /\ \E node \in TreeNodes :
       /\ node.type = "File"
       /\ node.path.absolute = <<"r", "dir", "b.c">>
       /\ node.path.relative = <<"dir", "b.c">>

\* The statistics of the row at position i of the named rows of a
\* document, under the keys of that document.
StatsOfRow(document, i) ==
  rowStats(namedRows(document)[i], filterKeys(parseStatKeys(document)))

\* The summary of the document of a directory, when it has one.
OwnSummary(node) == parseStats(DocumentAt(node.path.absolute))

\* C14: every Directory node carries the statistics parsed from the row
\* that lists it in its parent's document; the summary of the directory's
\* own document does not contribute.
C14_StatsOfListingRow ==
  (Returned /\ tableType(RootDocument) = "Directory") =>
    LET top == parsedReport.root.children
    IN /\ Len(top) = Len(namedRows(RootDocument))
       /\ \A i \in DOMAIN top :
            /\ top[i].type = "Directory"
            /\ top[i].stats = StatsOfRow(RootDocument, i)

\* A directory is in the tree whose own document has a summary with other
\* numbers than the row that lists it.
C14_Witness ==
  /\ Returned /\ tableType(RootDocument) = "Directory"
  /\ \E i \in DOMAIN parsedReport.root.children :
       LET node == parsedReport.root.children[i]
       IN /\ IsStats(OwnSummary(node))
          /\ OwnSummary(node).get # node.stats
          /\ node.stats = StatsOfRow(RootDocument, i)

\* The paths a document lists, in the order of its rows.
ListedPaths(directory, document) ==
  [i \in DOMAIN namedRows(document) |->
     absoluteOf(directory, namedRows(document)[i])]

PathsOfNodes(children) ==
  [i \in DOMAIN children |-> children[i].path.absolute]

\* C15: the children of every node are in the order of the rows of the
\* document that lists them: the root's children are the entries of the
\* root document, row by row, and the children of a directory are the file
\* entries of its document, row by row; nothing is sorted or reordered.
C15_RowOrder ==
  Returned =>
    LET top == parsedReport.root.children
    IN /\ PathsOfNodes(top) =
            IF tableType(RootDocument) = "undefined" THEN <<>>
            ELSE ListedPaths(RootDirectory, RootDocument)
       /\ \A i \in DOMAIN top :
            top[i].type = "Directory" =>
              LET document == DocumentAt(top[i].path.absolute)
              IN PathsOfNodes(top[i].children) =
                   IF tableType(document) = "File"
                   THEN ListedPaths(top[i].path.absolute, document)
                   ELSE <<>>

\* Two rows that are not in alphabetical order gave two nodes in the order
\* of the rows, and the directory among them has its two files in order.
C15_Witness ==
  /\ Returned
  /\ PathsOfNodes(parsedReport.root.children)
       = <<<<"r", "nosum">>, <<"r", "dir">>>>
  /\ PathsOfNodes(parsedReport.root.children[2].children)
       = <<<<"r", "dir", "b.c">>, <<"r", "dir", "c.c">>>>

\* The path lies at or below the directory.
IsBelow(path, directory) ==
  /\ Len(directory) <= Len(path)
  /\ SubSeq(path, 1, Len(directory)) = directory

\* The first row of the root document that lists a directory whose
\* document cannot be located or opened.
FirstFailing ==
  LET failing == ListsOneOf(RootDocument, FailingNames)
  IN CHOOSE i \in failing : \A j \in failing : i <= j

\* The root document has a summary and a Directory table with such a row.
ListsFailing ==
  /\ Built
  /\ IsStats(parseStats(RootDocument))
  /\ tableType(RootDocument) = "Directory"
  /\ ListsOneOf(RootDocument, FailingNames) # {}

\* The entries of the root document the loop of parseChildren took up.
RootEntriesHandled ==
  SelectSeq(calls, LAMBDA call :
              call.op = "entry" /\ dirname(call.path) = RootDirectory)

\* C16: when locating or opening the document of a Directory entry fails,
\* at any depth, parseRootIndexFile fails as a whole: the failure leaves
\* the builder, no tree is returned, the failed call is made once and is
\* the last call, and no row after the one that led to it is taken up.
C16_FailurePropagates ==
  ListsFailing =>
    LET target == absoluteOf(RootDirectory,
                             namedRows(RootDocument)[FirstFailing])
        last == calls[Len(calls)]
    IN /\ ppc = "failed"
       /\ "error" \in DOMAIN parsedReport
       /\ last.op \in {"findRootIndexFile", "openDocument"}
       /\ IsBelow(last.path, target)
       /\ Len(SelectSeq(calls, LAMBDA call : call = last)) = 1
       /\ Len(RootEntriesHandled) = FirstFailing

\* The document of a directory two levels down could not be opened, and
\* the root document has a row after the one that led there.
C16_Witness ==
  /\ ListsFailing
  /\ ppc = "failed"
  /\ calls[Len(calls)] =
       Event("openDocument", <<"r", "deep2", "locked", "index.html">>)
  /\ FirstFailing < Len(namedRows(RootDocument))

\* The root document has a summary and a Directory table that lists the
\* directory whose document has no summary, and no directory whose
\* document cannot be located or opened.
ListsSummaryLess ==
  /\ Built
  /\ IsStats(parseStats(RootDocument))
  /\ tableType(RootDocument) = "Directory"
  /\ ListsOneOf(RootDocument, {"nosum"}) # {}
  /\ ListsOneOf(RootDocument, FailingNames) = {}

\* The build does not fail and every row of the root document gave its
\* node.
SiblingsEmitted ==
  ListsSummaryLess =>
    /\ Returned
    /\ PathsOfNodes(parsedReport.root.children)
         = ListedPaths(RootDirectory, RootDocument)

\* C17: when the document of a nested directory has no parseable summary,
\* the build does not fail: the sibling entries are still processed and
\* emitted, and the branch rooted at that document is dropped, so that no
\* node listed by that document is in the tree.
C17_BranchDropped ==
  ListsSummaryLess =>
    /\ Returned
    /\ PathsOfNodes(parsedReport.root.children)
         = ListedPaths(RootDirectory, RootDocument)
    /\ \A node \in TreeNodes :
         IsBelow(node.path.absolute, <<"r", "nosum">>) =>
           node.path.absolute = <<"r", "nosum">>

\* The files the document opened by a call lists.
FilesListedBy(call) ==
  LET document == disk.files[call.path].document
  IN IF tableType(document) = "File"
     THEN {ListedPaths(dirname(call.path), document)[i] :
             i \in DOMAIN namedRows(document)}
     ELSE {}

\* The files listed by the documents opened during the traversal.
DiscoveredFiles ==
  UNION {FilesListedBy(calls[k]) :
           k \in {n \in DOMAIN calls : calls[n].op = "openDocument"}}

FileNodePaths ==
  {node.path.absolute : node \in {n \in TreeNodes : n.type = "File"}}

\* C18: every File entry listed in a document reached during the
\* traversal, at any nesting depth, is a File node of the built tree,
\* under its directory or among the children of an ancestor Directory; no
\* discovered file is lost.
C18_NoFileLost ==
  Returned => DiscoveredFiles \subseteq FileNodePaths

\* The same, for reports whose directories list files only.
TwoLevelsKept ==
  (Returned /\ ListsOneOf(RootDocument, {"deep", "deep2"}) = {}) =>
    DiscoveredFiles \subseteq FileNodePaths

\* findRootIndexFile has been called and returned or raised.
FindEnded == ppc # "find" /\ ppc # "idle"

LocatedIndex == "absolutePath" \in DOMAIN rootIndexFile

\* The path the caller gave, from the working directory.
GivenPath == resolve(disk.cwd, arg)

\* The given path is a directory with an index.html directly in it.
DirectoryWithIndex ==
  /\ GivenPath \in DOMAIN disk.files
  /\ disk.files[GivenPath].kind = "directory"
  /\ Append(GivenPath, "index.html") \in DOMAIN disk.files

\* The given path is a .zip archive (in any letter case) with an
\* index.html at its top level, and unzip is there and extracts it.
ArchiveWithIndex ==
  /\ GivenPath \in DOMAIN disk.files
  /\ disk.files[GivenPath].kind = "file"
  /\ GivenPath[Len(GivenPath)] \in {"report.zip", "REPORT.ZIP"}
  /\ disk.unzip = "ok"
  /\ <<"index.html">> \in DOMAIN disk.files[GivenPath].archive

\* C19: findRootIndexFile returns only when an index.html exists directly
\* under the searched root (the given directory, or the temporary
\* directory a .zip archive was extracted into), with absolutePath the
\* index.html of that root and relativePath "index.html"; in every other
\* case (path missing, directory without index.html, neither directory
\* nor .zip, unzip unavailable or failing, archive without top-level
\* index.html) it raises.
C19_IndexUnderRoot ==
  FindEnded =>
    /\ LocatedIndex <=> (DirectoryWithIndex \/ ArchiveWithIndex)
    /\ ~LocatedIndex => "error" \in DOMAIN rootIndexFile
    /\ LocatedIndex =>
         LET root == rootIndexFile.relative.root
         IN /\ root = IF DirectoryWithIndex THEN arg
                      ELSE PathText(TRUE, disk.tempDir)
            /\ rootIndexFile.absolutePath
                 = Append(resolve(disk.cwd, root), "index.html")
            /\ rootIndexFile.absolutePath \in DOMAIN disk.files
            /\ rootIndexFile.relative.relativePath
                 = PathText(FALSE, <<"index.html">>)

\* An archive has been extracted and its index.html located in the
\* temporary directory.
C19_Witness ==
  /\ FindEnded /\ LocatedIndex
  /\ ArchiveWithIndex
  /\ rootIndexFile.absolutePath = <<"tmp", "index.html">>

\* The categories of the summary header of a document, Coverage removed.
Categories(document) ==
  SelectSeq(document.summaryHeaders, LAMBDA header : header # "Coverage")

\* The number in the cell at position k from the fourth column on; 0 for
\* a cell that is missing or empty.
CellOrZero(row, k) ==
  IF k <= Len(row.numbers) /\ ~row.numbers[k].empty
  THEN row.numbers[k].num ELSE 0

\* The root document has a summary and a File table whose rows all have a
\* percentage cell.
ListsFiles ==
  /\ Built
  /\ IsStats(parseStats(RootDocument))
  /\ tableType(RootDocument) = "File"
  /\ \A i \in DOMAIN namedRows(RootDocument) :
       namedRows(RootDocument)[i].cover # "none"

\* Every row gave a node whose categories hold the cells, by position.
CellsByPosition ==
  /\ Returned
  /\ Len(parsedReport.root.children) = Len(namedRows(RootDocument))
  /\ \A i \in DOMAIN namedRows(RootDocument) :
       \A k \in DOMAIN Categories(RootDocument) :
         parsedReport.root.children[i].stats[Categories(RootDocument)[k]]
           = CellOrZero(namedRows(RootDocument)[i], k)

\* C20: for every listing row, the numeric cells from the fourth column on
\* are assigned left to right, position by position, to the categories of
\* the document's summary header with Coverage removed; a cell that is
\* missing or empty gives 0 and not an error.
C20_CellsOrZero == ListsFiles => CellsByPosition

\* The same, for rows that have a cell, empty or not, for every category.
EmptyCellsZero ==
  (/\ ListsFiles
   /\ \A i \in DOMAIN namedRows(RootDocument) :
        Len(namedRows(RootDocument)[i].numbers)
          >= Len(Categories(RootDocument))) => CellsByPosition

\* The rows of the root document that have the name cell of its table
\* kind, in row order.
SurvivingRows ==
  SelectSeq(RootDocument.rows,
            LAMBDA row :
              row.nameCell = IF RootDocument.tableHead = "Directory"
                             THEN "coverDirectory" ELSE "coverFile")

\* A surviving row can be read: it has a percentage cell and a cell for
\* every category.
Readable(row) ==
  /\ row.cover # "none"
  /\ Len(row.numbers) >= Len(Categories(RootDocument))

\* The root document has a summary and a Directory or File table, every
\* row with the name cell of the table can be read, and the document of
\* every directory listed can be located and opened.
ListsReadableRows ==
  /\ Built
  /\ IsStats(parseStats(RootDocument))
  /\ RootDocument.tableHead \in {"Directory", "File"}
  /\ \A i \in DOMAIN SurvivingRows :
       /\ Readable(SurvivingRows[i])
       /\ RootDocument.tableHead = "Directory" =>
            NameOf(SurvivingRows[i]) \notin FailingNames

\* C21: a listing row that lacks the name cell of the table's kind is
\* skipped without error and without reading any of its other cells (a
\* skipped row may lack the percentage cell and the number cells), and the
\* remaining rows are returned, one record per surviving row, in order.
C21_RowWithoutNameSkipped ==
  ListsReadableRows =>
    /\ Returned
    /\ Len(parsedReport.root.children) = Len(SurvivingRows)
    /\ \A i \in DOMAIN SurvivingRows :
         parsedReport.root.children[i].path.absolute
           = absoluteOf(RootDirectory, SurvivingRows[i])

\* A File table with a row that has no name cell, no percentage cell and
\* no number cell, next to a row that has them: one node is returned.
C21_Witness ==
  /\ ListsReadableRows /\ Returned
  /\ RootDocument.tableHead = "File"
  /\ Len(RootDocument.rows) = 2
  /\ \E i \in DOMAIN RootDocument.rows :
       /\ RootDocument.rows[i].nameCell = "none"
       /\ RootDocument.rows[i].cover = "none"
  /\ Len(parsedReport.root.children) = 1

\* The number a cell text stands for.
NumberIn(text) == text.num

\* The statistics of the returned root hold, for every header cell, the
\* number of the value cell at the same index.
SummaryMapped ==
  /\ Returned
  /\ \A i \in DOMAIN RootDocument.summaryHeaders :
       /\ i \in DOMAIN RootDocument.summaryValues
       /\ parsedReport.root.stats[RootDocument.summaryHeaders[i]]
            = NumberIn(RootDocument.summaryValues[i])

\* C22: parseStats returns absent, without raising, exactly when the list
\* of summary header cells or the list of summary value cells is empty; in
\* every other case it returns a mapping from each header cell's text to
\* the number parsed from the value cell at the same index.  (Seen on root
\* documents without rows, where nothing but parseStats can raise.)
C22_AbsentOrMapping ==
  (Built /\ RootDocument.rows = <<>>) =>
    IF NoParseableSummary(RootDocument)
    THEN ppc = "done" /\ parsedReport = Undefined
    ELSE SummaryMapped

\* The same, for summaries with a value cell for every header cell.
EvenSummaryMapped ==
  (/\ Built /\ RootDocument.rows = <<>>
   /\ Len(RootDocument.summaryValues) >= Len(RootDocument.summaryHeaders)) =>
    IF NoParseableSummary(RootDocument)
    THEN ppc = "done" /\ parsedReport = Undefined
    ELSE SummaryMapped

RECURSIVE LoadsBelow(_, _)
RECURSIVE LoadsOfRows(_, _, _)

\* The documents below a directory, in depth-first row order: for every
\* Directory row in turn, the document of the directory it names, then
\* the documents below that directory.
LoadsOfRows(directory, rows, i) ==
  IF i > Len(rows) THEN <<>>
  ELSE <<Append(directory \o rows[i].path.segs, "index.html")>>
         \o LoadsBelow(directory \o rows[i].path.segs,
                       DocumentAt(directory \o rows[i].path.segs))
         \o LoadsOfRows(directory, rows, i + 1)

LoadsBelow(directory, document) ==
  IF document.tableHead = "Directory"
  THEN LoadsOfRows(directory,
                   SelectSeq(document.rows,
                             LAMBDA row : row.nameCell = "coverDirectory"),
                   1)
  ELSE <<>>

\* The paths of the documents opened, in the order of the calls.
Opened ==
  [k \in DOMAIN CallsOf("openDocument") |-> CallsOf("openDocument")[k].path]

\* C23: during one build the documents are loaded one at a time in
\* depth-first row order: the document of a Directory row is located only
\* after the entries of its parent document have been extracted, it is
\* opened right after it is located, with no other call in between, and
\* the documents of a finished build have been opened in the order root,
\* then for every Directory row in turn its document followed by all
\* documents below it.
C23_DepthFirstOneAtATime ==
  Built =>
    /\ \A k \in DOMAIN calls :
         calls[k].op = "findRootIndexFile" =>
           /\ \E j \in 1..(k - 1) :
                calls[j] = Event("parseEntries", dirname(calls[k].path))
           /\ k < Len(calls) =>
                calls[k + 1] = Event("openDocument",
                                     Append(calls[k].path, "index.html"))
    /\ Returned =>
         Opened = <<rootIndexFile.absolutePath>>
                    \o LoadsBelow(RootDirectory, RootDocument)

\* The root lists the directory "deep", which lists "sub", before the
\* directory "dir": four documents have been opened, "sub" before "dir".
C23_Witness ==
  /\ Returned
  /\ Opened = <<<<"r", "index.html">>, <<"r", "deep", "index.html">>,
                <<"r", "deep", "sub", "index.html">>,
                <<"r", "dir", "index.html">>>>

\* parseRootIndexFile has been called and is not followed further.
Left == ppc \in {"done", "failed", "running"} /\ calls # <<>>

\* The documents among the paths opened.
DocumentsOpened ==
  {p \in {Opened[k] : k \in DOMAIN Opened} :
     /\ p \in DOMAIN disk.files
     /\ "document" \in DOMAIN disk.files[p]}

RECURSIVE RowsIn(_)
\* Number of rows the documents at the given paths hold together.
RowsIn(paths) ==
  IF paths = {} THEN 0
  ELSE LET p == CHOOSE q \in paths : TRUE
       IN Len(disk.files[p].document.rows) + RowsIn(paths \ {p})

\* C24: a build comes to its end, whatever paths the Directory rows of
\* the documents name, and opens the root document and at most one
\* document for every row of the documents it opens.
C24_OpensBounded ==
  Left =>
    /\ ppc # "running"
    /\ Len(Opened) <= 1 + RowsIn(DocumentsOpened)

\* Without a row that leads back to a directory being built, the build
\* ends and the documents opened are no more than the rows read.
C24_TreeOpensBounded ==
  (Left /\ <<"r", "loop", "index.html">> \notin DocumentsOpened) =>
    /\ ppc # "running"
    /\ Len(Opened) <= 1 + RowsIn(DocumentsOpened)

\* The paths of a level that name one File on one side and one Directory
\* on the other.
KindChanged(L) ==
  {k \in PathsOf(L.a) \cap PathsOf(L.b) :
     \/ IsFile(L.a, k) /\ IsDir(L.b, k)
     \/ IsDir(L.a, k) /\ IsFile(L.b, k)}

\* C25: a path that is a File on one side and a Directory on the other is
\* reported as a removed node of the kind it had before together with an
\* added node of the kind it has after, and never as a changed node.
C25_KindChangeReported ==
  Done =>
    \A L \in Levels : \A k \in KindChanged(L) :
      /\ \E i \in DIdx(L.d, k) :
           /\ L.d[i].type = "removed"
           /\ L.d[i].nodeType = TheNode(L.a, k).type
      /\ \E i \in DIdx(L.d, k) :
           /\ L.d[i].type = "added"
           /\ L.d[i].nodeType = TheNode(L.b, k).type
      /\ \A i \in DIdx(L.d, k) : L.d[i].type # "changed"

\* A path whose kind differs between the sides is never reported as
\* changed: no node at all is emitted for it.
KindChangeSilent ==
  Done => \A L \in Levels : \A k \in KindChanged(L) : ~Emitted(L.d, k)

\* The last node of a collection that carries the path k.
LastNode(children, k) ==
  children[CHOOSE i \in Idx(children, k) : \A j \in Idx(children, k) : j <= i]

\* The positions at which a path occurs for the first time.
FirstAt(children) ==
  {i \in DOMAIN children : \A j \in 1..(i - 1) : Rel(children[j]) # Rel(children[i])}

RECURSIVE LastOnly(_)
\* A collection without the nodes that a later node of the same path
\* follows, at every depth; the node kept stands where its path occurs
\* first.
LastOnly(children) ==
  LET firsts == SelectSeq([i \in DOMAIN children |-> i],
                          LAMBDA i : i \in FirstAt(children))
  IN [j \in DOMAIN firsts |->
        LET node == LastNode(children, Rel(children[firsts[j]]))
        IN IF HasChildren(node)
           THEN [node EXCEPT !.children = LastOnly(@)]
           ELSE node]

\* The children a collection holds for the path k in the comparison.
ChildrenAt(children, k) ==
  IF k \in PathsOf(children) /\ HasChildren(LastNode(children, k))
  THEN LastNode(children, k).children
  ELSE <<>>

RECURSIVE OnePerPath(_, _, _)
\* A list of DiffNodes, and every list below it, holds one node per path
\* at most, and only paths of the two collections it was returned for.
OnePerPath(a, b, d) ==
  /\ \A i, j \in DOMAIN d : d[i].path = d[j].path => i = j
  /\ \A i \in DOMAIN d :
       /\ d[i].path \in PathsOf(a) \cup PathsOf(b)
       /\ HasChildren(d[i]) =>
            OnePerPath(ChildrenAt(a, d[i].path), ChildrenAt(b, d[i].path),
                       d[i].children)

\* C26: every list diffChildren returns holds at most one DiffNode per
\* relative path, all of them paths of the two collections compared; of
\* several nodes with one path in a collection only the last is compared:
\* the diff is the diff of the trees without the earlier ones.
C26_OnePerPathLastWins ==
  Done =>
    /\ OnePerPath(before.root.children, after.root.children, result.children)
    /\ result = diff([root |-> [before.root EXCEPT !.children = LastOnly(@)]],
                     [root |-> [after.root EXCEPT !.children = LastOnly(@)]])

\* A path occurs twice in the before collection, as nodes that differ, and
\* a node has been emitted for it.
C26_Witness ==
  /\ Done
  /\ \E i, j \in DOMAIN before.root.children :
       /\ i < j
       /\ Rel(before.root.children[i]) = Rel(before.root.children[j])
       /\ before.root.children[i] # before.root.children[j]
       /\ Emitted(result.children, Rel(before.root.children[i]))

\* Two stats records of opposite directions: both absent, or every delta
\* of one is the negated delta of the other.
Negated(s, t) ==
  IF s = Undefined \/ t = Undefined THEN s = t
  ELSE /\ s.CoverageDelta = -t.CoverageDelta
       /\ s.TotalDelta = -t.TotalDelta
       /\ s.HitDelta = -t.HitDelta

RECURSIVE Mirrored(_, _)
\* Two lists of DiffNodes of opposite directions: the same paths, removed
\* against added, changed against changed with negated deltas, and the
\* same for the lists below two changed directories.
Mirrored(d, e) ==
  /\ {d[i].path : i \in DOMAIN d} = {e[j].path : j \in DOMAIN e}
  /\ \A i \in DOMAIN d, j \in DOMAIN e :
       d[i].path = e[j].path =>
         /\ d[i].nodeType = e[j].nodeType
         /\ d[i].type = "removed" => e[j].type = "added"
         /\ d[i].type = "added" => e[j].type = "removed"
         /\ d[i].type = "changed" =>
              /\ e[j].type = "changed"
              /\ Negated(d[i].stats, e[j].stats)
              /\ HasChildren(d[i]) <=> HasChildren(e[j])
              /\ HasChildren(d[i]) => Mirrored(d[i].children, e[j].children)

\* C27: diff(A, B) and diff(B, A) mirror each other at the root and below
\* every directory compared on both sides: the same set of paths, a path
\* removed in one is added in the other, a path changed in one is changed
\* in the other with every delta negated, and the root delta is present
\* in both or in neither.  The list below an added directory, the children
\* compared with an empty collection, mirrors the empty collection
\* compared with the children.
C27_Antisymmetric ==
  Done =>
    /\ Negated(result.stats, diff(after, before).stats)
    /\ Mirrored(result.children, diff(after, before).children)
    /\ \A i \in DOMAIN result.children :
         (result.children[i].type = "added" /\ HasChildren(result.children[i]))
           => Mirrored(result.children[i].children,
                       diffChildren(
                         ChildrenAt(after.root.children,
                                    result.children[i].path),
                         <<>>))

\* The root statistics differ, and the diff holds a changed node with a
\* coverage delta.
C27_Witness ==
  /\ Done
  /\ result.stats # Undefined
  /\ \E i \in DOMAIN result.children :
       /\ result.children[i].type = "changed"
       /\ result.children[i].stats # Undefined
       /\ result.children[i].stats.CoverageDelta # 0

\* The paths of a collection, each once, in the order of their first
\* occurrence.
FirstPaths(children) ==
  LET paths == [i \in DOMAIN children |-> Rel(children[i])]
  IN [j \in 1..Cardinality(FirstAt(children)) |->
        paths[CHOOSE i \in FirstAt(children) :
                Cardinality({h \in FirstAt(children) : h <= i}) = j]]

\* The paths of the before collection, then the paths only the after
\* collection holds.
KeyOrder(a, b) ==
  FirstPaths(a) \o SelectSeq(FirstPaths(b), LAMBDA k : k \notin PathsOf(a))

RECURSIVE InKeyOrder(_, _, _)
\* The DiffNodes of a list, and of every list below it, stand in the
\* order of the keys that produced them.
InKeyOrder(a, b, d) ==
  /\ [i \in DOMAIN d |-> d[i].path]
       = SelectSeq(KeyOrder(a, b), LAMBDA k : Emitted(d, k))
  /\ \A i \in DOMAIN d :
       HasChildren(d[i]) =>
         InKeyOrder(ChildrenAt(a, d[i].path), ChildrenAt(b, d[i].path),
                    d[i].children)

\* C28: the order of the DiffNodes is fixed by the inputs: at every level
\* they are, of the keys that produce a node, the paths of the before
\* collection in the order of their first occurrence followed by the paths
\* only the after collection holds, in the order of the after collection;
\* the same two trees always give this one output.
C28_OrderDetermined ==
  Done =>
    /\ InKeyOrder(before.root.children, after.root.children, result.children)
    /\ result = diff(before, after)

\* A node of a path of the before collection stands ahead of a node of a
\* path only the after collection holds, which the after collection lists
\* ahead of the first.
C28_Witness ==
  /\ Done
  /\ \E i, j \in DOMAIN result.children :
       /\ i < j
       /\ result.children[i].path \in PathsOf(before.root.children)
       /\ result.children[j].path \notin PathsOf(before.root.children)
       /\ \E g, h \in DOMAIN after.root.children :
            /\ g < h
            /\ Rel(after.root.children[g]) = result.children[j].path
            /\ Rel(after.root.children[h]) = result.children[i].path

====
